---- MODULE Spec2Model ----
(***************************************************************************)
(* Verification model of the AUS_Land_Clearing Earth Engine scripts:       *)
(* core/utils.js (classification, compositing, change detection,           *)
(* cumulative clearing), utils/slats_integration.js (SLATS validation) and  *)
(* core/config.js (class lists, thresholds).                               *)
(*                                                                         *)
(* A raster is a function from Cells to integers.  Earth Engine pixels can *)
(* be masked (no data); a masked pixel is the value Masked.  Every server  *)
(* side operator used by the scripts is modelled per pixel with the        *)
(* semantics the Earth Engine API documents for it.                        *)
(***************************************************************************)
EXTENDS Integers, Sequences, FiniteSets, TLC

VARIABLES
  pc,            \* position of the operation under study
  LAND_COVER_CLASSES, \* classifier configuration: the class map
  lcImage,       \* classifier input: land cover codes per cell
  woodyMask,     \* classifier output of createWoodyMask
  simplified,    \* classifier output of simplifyLandCover
  imgBefore,     \* change detector input: earlier woody mask
  imgAfter,      \* change detector input: later woody mask
  clearingOut,   \* change detector output
  gridBefore,    \* change detector input: projection of the earlier mask
  gridAfter,     \* change detector input: projection of the later mask
  clearingRev,   \* change detector output of the call with swapped arguments
  series,        \* tracker input: the woody time series as a list
  idx,           \* tracker: index of the next element the fold visits
  acc,           \* tracker: the fold's accumulator image
  derived,       \* validator input: derived (DEA) clearing raster
  polygons,      \* validator input: SLATS clearing polygons
  roi,           \* validator input: the cells inside the region geometry
  confusion,     \* validator output: the returned dictionary
  observations,  \* compositor input: the dated images of the collection
  fromYear,      \* compositor input: startYear
  toYear,        \* compositor input: endYear
  composites,    \* compositor output: the annual composites
  areaImage,     \* area aggregator input: a one-band image
  areaRegion,    \* area aggregator input: the cells inside the region
  areaScale,     \* area aggregator input: the scale argument (0: omitted)
  areaStats,     \* area aggregator output: the returned dictionary
  slatsFeatures, \* SLATS series input: the clearing polygons
  slatsStart,    \* SLATS series input: startYear
  slatsEnd,      \* SLATS series input: endYear
  slatsRegion,   \* SLATS series input: the cells inside the region
  slatsYearOut,  \* SLATS series output: the clearing_year raster
  rcSource,      \* export reclassification input: the data source
  rcImage,       \* export reclassification input: land cover codes
  rcOut,         \* export reclassification output: landcover_class
  fcInput,       \* fractional cover input: PV and NPV per cell
  fcThresholdArg, \* fractional cover input: the threshold argument
  fcWoody,       \* fractional cover output: the woody_fc raster
  regionName,    \* workflow configuration: WORKFLOW_CONFIG.regionName
  productName,   \* workflow configuration: WORKFLOW_CONFIG.product
  startYearText, \* workflow configuration: WORKFLOW_CONFIG.startYear
  endYearText,   \* workflow configuration: WORKFLOW_CONFIG.endYear
  frameIdx,      \* GeoTIFF export loop: number of years already handled
  frameTasks,    \* GeoTIFF export loop: the export tasks created so far
  stateName,     \* annual export script configuration: STATE
  START_YEAR,    \* annual export script configuration
  END_YEAR,      \* annual export script configuration
  EXPORT_TO_DRIVE,    \* annual export script configuration
  USE_ESA_WORLDCOVER, \* annual export script configuration
  USE_DYNAMIC_WORLD,  \* annual export script configuration
  loopYear,      \* annual export script: the loop variable 'year'
  mapLayers,     \* annual export script: layers added to the map
  exportTasks,   \* annual export script: export tasks created
  cmpSeries,     \* annual comparison input: the DEA woody time series
  cmpFeatures,   \* annual comparison input: the SLATS polygons
  cmpRegion,     \* annual comparison input: the cells inside the region
  comparison,    \* annual comparison output: one feature per year
  seasonal       \* compositor output: the seasonal composites

classVars == <<LAND_COVER_CLASSES, lcImage, woodyMask, simplified>>
detectVars == <<imgBefore, imgAfter, clearingOut, gridBefore, gridAfter, clearingRev>>
trackVars == <<series, idx, acc>>
validVars == <<derived, polygons, roi, confusion>>
compVars == <<observations, fromYear, toYear, composites>>
areaVars == <<areaImage, areaRegion, areaScale, areaStats>>
slatsVars ==
  <<slatsFeatures, slatsStart, slatsEnd, slatsRegion, slatsYearOut>>
reclassVars == <<rcSource, rcImage, rcOut>>
fcVars == <<fcInput, fcThresholdArg, fcWoody>>
frameVars ==
  <<regionName, productName, startYearText, endYearText, frameIdx, frameTasks>>
annualVars ==
  <<stateName, START_YEAR, END_YEAR, EXPORT_TO_DRIVE, USE_ESA_WORLDCOVER,
    USE_DYNAMIC_WORLD, loopYear, mapLayers, exportTasks>>
cmpVars == <<cmpSeries, cmpFeatures, cmpRegion, comparison>>
seasonVars == <<seasonal>>
vars == <<pc, classVars, detectVars, trackVars, validVars, compVars, areaVars,
          slatsVars, reclassVars,
          fcVars,
          frameVars,
          annualVars,
          cmpVars,
          seasonVars>>

\* ------------------------------------------------------------------------
\* Bounds of the model
\* ------------------------------------------------------------------------
NumCells == 2
NumSeriesCells == 1
MaxLayers == 3
MaxYear == 3
MaxPolygons == 2
MaxObs == 3
MaxCompYear == 2

\* The grid of a single raster, and the (smaller) grid of the rasters of a
\* time series.
Cells == 1..NumCells
SeriesCells == 1..NumSeriesCells

\* A masked (no data) pixel.
Masked == 0 - 1

\* An image with no bands (also: a raster not computed yet).
NoRaster == <<>>

\* ------------------------------------------------------------------------
\* core/config.js : LAND_COVER_CLASSES
\* ------------------------------------------------------------------------
WOODY_classes == <<111, 112, 113, 121, 122, 123, 124, 125, 126>>
NON_WOODY_classes == <<211, 212, 213, 214, 215, 216>>
BARE_classes == <<221, 222, 223>>
WATER_classes == <<311, 312, 313, 314, 315>>
URBAN_classes == <<411, 412>>

\* The class map as config.js ships it.
ShippedClasses ==
  [WOODY     |-> [classes |-> WOODY_classes],
   NON_WOODY |-> [classes |-> NON_WOODY_classes],
   BARE      |-> [classes |-> BARE_classes],
   WATER     |-> [classes |-> WATER_classes],
   URBAN     |-> [classes |-> URBAN_classes]]

\* The class map after the edit docs/CONFIGURATION.md proposes to make WOODY
\* "more inclusive": 211 appended to WOODY.classes, NON_WOODY untouched.
InclusiveWoodyClasses ==
  [ShippedClasses EXCEPT !.WOODY.classes = Append(WOODY_classes, 211)]

ClassMaps == {ShippedClasses, InclusiveWoodyClasses}

Range(s) == {s[i] : i \in DOMAIN s}

\* Codes that occur in no category of LAND_COVER_CLASSES.
UnmappedCodes == {0, 999}

\* The codes an input land cover raster is drawn from.
InputCodes ==
  Range(WOODY_classes) \cup Range(NON_WOODY_classes) \cup Range(BARE_classes)
    \cup Range(WATER_classes) \cup Range(URBAN_classes) \cup UnmappedCodes

\* ------------------------------------------------------------------------
\* Earth Engine per-pixel operators used by the scripts
\* ------------------------------------------------------------------------
\* ee.List.repeat(value, count)
Repeat(value, count) == [i \in 1..count |-> value]

\* ee.Image.remap(from, to, defaultValue) at one pixel: the value of 'to' at
\* the first position where 'from' holds the pixel's code, defaultValue when
\* the code is not in 'from'.
Remap(from, to, defaultValue, code) ==
  IF \E i \in DOMAIN from : from[i] = code
    THEN to[CHOOSE i \in DOMAIN from :
              /\ from[i] = code
              /\ \A j \in DOMAIN from : from[j] = code => i <= j]
    ELSE defaultValue

\* ee.Image.eq(k) at one pixel (1 when equal, 0 otherwise, masked stays masked)
PxEq(v, k) == IF v = Masked THEN Masked ELSE IF v = k THEN 1 ELSE 0

\* ee.Image.and at one pixel: 1 iff both values are non-zero; masked when
\* either input is masked.
PxAnd(a, b) ==
  IF a = Masked \/ b = Masked THEN Masked
  ELSE IF a # 0 /\ b # 0 THEN 1 ELSE 0

\* ee.Image.not at one pixel: 1 iff the value is zero.
PxNot(a) == IF a = Masked THEN Masked ELSE IF a = 0 THEN 1 ELSE 0

\* ------------------------------------------------------------------------
\* core/utils.js : createWoodyMask
\* ------------------------------------------------------------------------
createWoodyMaskDefaultOne(landCoverImage) ==
  LET woodyClasses == LAND_COVER_CLASSES.WOODY.classes
  IN [c \in DOMAIN landCoverImage |->
        Remap(woodyClasses, Repeat(1, Len(woodyClasses)), 1, landCoverImage[c])]

createWoodyMask(landCoverImage) ==
  LET woodyClasses == LAND_COVER_CLASSES.WOODY.classes
  IN [c \in DOMAIN landCoverImage |->
        Remap(woodyClasses, Repeat(1, Len(woodyClasses)), 0, landCoverImage[c])]

\* ------------------------------------------------------------------------
\* core/utils.js : simplifyLandCover
\* ------------------------------------------------------------------------
\* An element of a JavaScript array: a number, or an object (an ee.List)
\* held as one element.
JsNumber(n) == [isObject |-> FALSE, value |-> n, items |-> <<>>]
JsObject(list) == [isObject |-> TRUE, value |-> 0, items |-> list]

\* An argument of Array.prototype.concat: a JavaScript array, whose
\* elements concat copies one by one, or any other value (such as an
\* ee.List object), which concat appends as a single element.
JsArray(list) == [isArray |-> TRUE, items |-> list]
EeList(list) == [isArray |-> FALSE, items |-> list]

RECURSIVE JsConcat(_)
JsConcat(args) ==
  IF args = <<>> THEN <<>>
  ELSE LET a == Head(args)
       IN (IF a.isArray
             THEN [i \in DOMAIN a.items |-> JsNumber(a.items[i])]
             ELSE <<JsObject(a.items)>>)
          \o JsConcat(Tail(args))

\* ee.Image.remap over a whole image with 'from' and 'to' given as
\* JavaScript arrays: the call fails (no image) unless both are lists of
\* numbers of the same length.
ImageRemap(landCoverImage, from, to, defaultValue) ==
  IF \/ Len(from) # Len(to)
     \/ \E i \in DOMAIN from : from[i].isObject
     \/ \E i \in DOMAIN to : to[i].isObject
    THEN NoRaster
    ELSE [c \in DOMAIN landCoverImage |->
            Remap([i \in DOMAIN from |-> from[i].value],
                  [i \in DOMAIN to |-> to[i].value],
                  defaultValue, landCoverImage[c])]

simplifyLandCover(landCoverImage) ==
  LET W == LAND_COVER_CLASSES.WOODY.classes
      N == LAND_COVER_CLASSES.NON_WOODY.classes
      B == LAND_COVER_CLASSES.BARE.classes
      A == LAND_COVER_CLASSES.WATER.classes
      U == LAND_COVER_CLASSES.URBAN.classes
  IN ImageRemap(landCoverImage,
       JsConcat(<<JsArray(W), JsArray(N), JsArray(B), JsArray(A), JsArray(U)>>),
       JsConcat(<<EeList(Repeat(1, Len(W))), EeList(Repeat(2, Len(N))),
                  EeList(Repeat(3, Len(B))), EeList(Repeat(4, Len(A))),
                  EeList(Repeat(5, Len(U)))>>),
       0)

\* ------------------------------------------------------------------------
\* core/utils.js : woodyFromFractionalCover
\* ------------------------------------------------------------------------
\* A JavaScript argument: omitted (undefined) or a supplied number.
Omitted == [supplied |-> FALSE, value |-> 0]
Supplied(n) == [supplied |-> TRUE, value |-> n]

\* threshold || 20: undefined and 0 are both falsy.
OrDefault(arg, default) ==
  IF arg.supplied /\ arg.value # 0 THEN arg.value ELSE default

\* ee.Image.add at one pixel
PxAdd(a, b) == IF a = Masked \/ b = Masked THEN Masked ELSE a + b

\* ee.Image.gt(k) at one pixel
PxGt(v, k) == IF v = Masked THEN Masked ELSE IF v > k THEN 1 ELSE 0

woodyFromFractionalCover(fcImage, thresholdArg) ==
  LET threshold == OrDefault(thresholdArg, 20)
      totalVeg == [c \in DOMAIN fcImage |-> PxAdd(fcImage[c].PV, fcImage[c].NPV)]
  IN [c \in DOMAIN fcImage |-> PxGt(totalVeg[c], threshold)]

\* ------------------------------------------------------------------------
\* core/utils.js : detectClearing
\* ------------------------------------------------------------------------
detectClearingPx(t1, t2) == PxAnd(PxEq(t1, 1), PxEq(t2, 0))

\* ee.Image.or at one pixel
PxOr(a, b) ==
  IF a = Masked \/ b = Masked THEN Masked
  ELSE IF a # 0 \/ b # 0 THEN 1 ELSE 0

detectClearingOr(woodyT1, woodyT2) ==
  [c \in DOMAIN woodyT1 |-> PxOr(PxEq(woodyT1[c], 1), PxEq(woodyT2[c], 0))]

detectClearingAnyChange(woodyT1, woodyT2) ==
  [c \in DOMAIN woodyT1 |->
     IF woodyT1[c] = Masked \/ woodyT2[c] = Masked THEN Masked
     ELSE IF woodyT1[c] # woodyT2[c] THEN 1 ELSE 0]

detectClearing(woodyT1, woodyT2) ==
  [c \in DOMAIN woodyT1 |-> detectClearingPx(woodyT1[c], woodyT2[c])]

\* ------------------------------------------------------------------------
\* core/utils.js : cumulativeClearing
\* ------------------------------------------------------------------------
\* baseline.addBands(ee.Image.constant(0).rename('clearing_year')): an image
\* of two bands, held cell by cell as a record of its band values.
cumulativeInitial(baseline) ==
  [c \in DOMAIN baseline.woody |->
     [woody |-> baseline.woody[c], clearing_year |-> 0]]

\* woodyT1.eq(1).and(woodyT2.eq(0)) with the accumulator as woodyT1: eq works
\* band by band and and() uses the one band of woodyT2 against every band
\* of woodyT1, so the result has as many bands as the accumulator.
detectClearingBands(woodyT1, woodyT2) ==
  [c \in DOMAIN woodyT1 |->
     [b \in DOMAIN woodyT1[c] |-> detectClearingPx(woodyT1[c][b], woodyT2[c])]]

\* ee.Image.rename(names) is evaluated only when the image has as many
\* bands as there are names.
RenameAccepts(image, names) ==
  \A c \in DOMAIN image : Cardinality(DOMAIN image[c]) = Len(names)

\* The outcome of an evaluation that failed in the named call.
EvaluationError(call) == <<[error |-> call]>>
IsError(image) == image # <<>> /\ "error" \in DOMAIN image[1]

\* ee.Image.where(test, value) at one pixel of the two-band accumulator:
\* where test is non-zero every band of the input takes the value.
WherePx(input, test, value) ==
  IF test # 0 /\ test # Masked
    THEN [woody |-> value, clearing_year |-> value]
    ELSE input

\* The function handed to iterate(): 'previous' is the accumulator, and it
\* is the accumulator itself, both bands, that detectClearing receives.
\* Its rename('clearing') gives one name to an image of two bands.
cumulativeStep(current, previous) ==
  LET year == current.year
      bands == detectClearingBands(previous, current.woody)
  IN IF ~RenameAccepts(bands, <<"clearing">>)
       THEN EvaluationError("Image.rename")
       ELSE LET cleared ==
                  [c \in DOMAIN bands |->
                     bands[c][CHOOSE b \in DOMAIN bands[c] : TRUE]]
            IN [c \in DOMAIN previous |->
                  WherePx(previous[c],
                          PxAnd(cleared[c],
                                PxEq(previous[c].clearing_year, 0)),
                          year)]

\* ------------------------------------------------------------------------
\* ee.Number arithmetic.  A number is an exact fraction [n, d] in lowest
\* terms with d > 0.  The fraction [0, 0] is the null / undefined marker; no
\* Earth Engine arithmetic operator produces it.
\* ------------------------------------------------------------------------
RECURSIVE GCD(_, _)
GCD(a, b) == IF b = 0 THEN a ELSE GCD(b, a % b)

Abs(x) == IF x < 0 THEN 0 - x ELSE x

Num(n, d) ==
  LET g == GCD(Abs(n), Abs(d))
      sgn == IF d < 0 THEN 0 - 1 ELSE 1
  IN [n |-> sgn * (n \div g), d |-> sgn * (d \div g)]

Int2Num(k) == [n |-> k, d |-> 1]
Null == [n |-> 0, d |-> 0]
IsNull(x) == x.d = 0
IsZero(x) == x.d # 0 /\ x.n = 0

\* ee.Number.add, ee.Number.multiply
NumAdd(a, b) == Num(a.n * b.d + b.n * a.d, a.d * b.d)
NumMultiply(a, b) == Num(a.n * b.n, a.d * b.d)

\* ee.Number.divide: "Divides the first value by the second, returning 0
\* for division by 0."
NumDivide(a, b) == IF b.n = 0 THEN Int2Num(0) ELSE Num(a.n * b.d, a.d * b.n)

\* ------------------------------------------------------------------------
\* core/config.js : PROJECTION, and ee.Image.pixelArea() at that scale
\* ------------------------------------------------------------------------
PROJECTION_scale == 25
SquareMetresPerHectare == 10000

\* ee.Image.pixelArea(): square metres of a pixel at the analysis scale.
PixelArea(scale) == scale * scale

\* ee.Reducer.sum() over a finite set of cells.
RECURSIVE SumOver(_, _)
SumOver(S, f) ==
  IF S = {} THEN 0
  ELSE LET x == CHOOSE y \in S : TRUE
       IN f[x] + SumOver(S \ {x}, f)

\* image.multiply(ee.Image.pixelArea()).reduceRegion(sum, geometry, scale):
\* the sum of value * pixel area over the unmasked pixels inside the geometry.
ReduceRegionSum(band, geometry, scale) ==
  SumOver({c \in geometry : band[c] # Masked},
          [c \in DOMAIN band |-> band[c] * PixelArea(scale)])

\* ------------------------------------------------------------------------
\* core/utils.js : calculateArea
\* ------------------------------------------------------------------------
\* scale = scale || config.PROJECTION.scale (an omitted or zero argument
\* is falsy)
ScaleOrDefault(scale) == IF scale = 0 THEN PROJECTION_scale ELSE scale

calculateAreaNoRegion(image, geometry, scale) ==
  [b \in {image.band} |->
     ReduceRegionSum(image.values, DOMAIN image.values, ScaleOrDefault(scale))]

calculateAreaDropEmpty(image, geometry, scale) ==
  IF \A c \in geometry : image.values[c] \in {0, Masked}
    THEN <<>>
    ELSE [b \in {image.band} |->
            ReduceRegionSum(image.values, geometry, ScaleOrDefault(scale))]

\* The dictionary of reduceRegion: one entry, under the band's name, with
\* the sum of value * pixel area over the region.
calculateArea(image, geometry, scale) ==
  [b \in {image.band} |->
     ReduceRegionSum(image.values, geometry, ScaleOrDefault(scale))]

\* ------------------------------------------------------------------------
\* gee/dea_annual_landcover_nsw_qld.js : reclassification
\* ------------------------------------------------------------------------
\* ee.Image.where(test, value) at one pixel of a one-band image.
WhereBandPx(input, test, value) ==
  IF test # 0 /\ test # Masked THEN value ELSE input

\* image.eq(10).or(image.eq(20)).or(image.eq(95))
esaWoody(image) ==
  [c \in DOMAIN image |->
     PxOr(PxOr(PxEq(image[c], 10), PxEq(image[c], 20)), PxEq(image[c], 95))]

\* image.eq(30).or(image.eq(40)).or(image.eq(90))
esaNonWoody(image) ==
  [c \in DOMAIN image |->
     PxOr(PxOr(PxEq(image[c], 30), PxEq(image[c], 40)), PxEq(image[c], 90))]

\* ee.Image.uint8() at one pixel
Uint8(v) == IF v = Masked THEN Masked ELSE IF v < 0 THEN 0 ELSE IF v > 255 THEN 255 ELSE v

reclassifyESASkipMangroves(image) ==
  LET woody == [c \in DOMAIN image |->
                  PxOr(PxEq(image[c], 10), PxEq(image[c], 20))]
      nonWoody == esaNonWoody(image)
  IN [c \in DOMAIN image |->
        Uint8(WhereBandPx(WhereBandPx(0, woody[c], 1), nonWoody[c], 2))]

\* ee.Image(0).where(woody, 1).where(nonWoody, 2).uint8()
reclassifyESAToWoodyNonwoody(image) ==
  LET woody == esaWoody(image)
      nonWoody == esaNonWoody(image)
  IN [c \in DOMAIN image |->
        Uint8(WhereBandPx(WhereBandPx(0, woody[c], 1), nonWoody[c], 2))]

\* image.eq(1).or(image.eq(5))
dwWoody(image) ==
  [c \in DOMAIN image |-> PxOr(PxEq(image[c], 1), PxEq(image[c], 5))]

\* image.eq(2).or(image.eq(3)).or(image.eq(4))
dwNonWoody(image) ==
  [c \in DOMAIN image |->
     PxOr(PxOr(PxEq(image[c], 2), PxEq(image[c], 3)), PxEq(image[c], 4))]

reclassifyDynamicWorldToWoodyNonwoody(image) ==
  LET woody == dwWoody(image)
      nonWoody == dwNonWoody(image)
  IN [c \in DOMAIN image |->
        Uint8(WhereBandPx(WhereBandPx(0, woody[c], 1), nonWoody[c], 2))]

\* ------------------------------------------------------------------------
\* utils/slats_integration.js : slatsToRaster
\* ------------------------------------------------------------------------
\* A SLATS polygon: the cells it covers and its AREA attribute.
RECURSIVE SumAREA(_)
SumAREA(features) ==
  IF features = {} THEN 0
  ELSE LET f == CHOOSE g \in features : TRUE
       IN f.AREA + SumAREA(features \ {f})

\* filterBounds keeps the polygons that intersect the region; reduceToImage
\* sums AREA over the polygons covering a pixel and leaves a pixel covered
\* by no polygon masked; clip masks the pixels outside the region.
slatsToRaster(features, scale, geometry) ==
  LET inBounds == {f \in features : f.cells \cap geometry # {}}
      covering(c) == {f \in inBounds : c \in f.cells}
      reduced == [c \in Cells |->
                    IF covering(c) = {} THEN Masked
                    ELSE SumAREA(covering(c))]
  IN [c \in Cells |->
        IF c \in geometry THEN PxGt(reduced[c], 0) ELSE Masked]

\* ------------------------------------------------------------------------
\* utils/slats_integration.js : createAnnualSLATSSeries, cumulativeSLATSClearing
\* ------------------------------------------------------------------------
\* One raster per year of the range, rasterised from the polygons whose
\* YEAR attribute is that year.
createAnnualSLATSSeries(features, startYear, endYear, geometry, scale) ==
  LET years == [i \in 1..(endYear - startYear + 1) |-> startYear + i - 1]
  IN [i \in DOMAIN years |->
        [slats_clearing |->
           slatsToRaster({f \in features : f.YEAR = years[i]}, scale, geometry),
         year |-> years[i]]]

slatsYearStepNoGuard(current, previous) ==
  [c \in DOMAIN previous |->
     WhereBandPx(previous[c], current.slats_clearing[c], current.year)]

\* The function handed to iterate(): 'previous' is the clearing_year image.
slatsYearStep(current, previous) ==
  LET year == current.year
      cleared == current.slats_clearing
  IN [c \in DOMAIN previous |->
        WhereBandPx(previous[c], PxAnd(cleared[c], PxEq(previous[c], 0)), year)]

\* ee.ImageCollection.iterate(slatsYearStep, first)
RECURSIVE slatsIterate(_, _)
slatsIterate(annualSLATS, first) ==
  IF annualSLATS = <<>> THEN first
  ELSE slatsIterate(Tail(annualSLATS), slatsYearStep(Head(annualSLATS), first))

cumulativeSLATSClearing(features, startYear, endYear, geometry, scale) ==
  LET annualSLATS ==
        createAnnualSLATSSeries(features, startYear, endYear, geometry, scale)
  IN slatsIterate(annualSLATS, [c \in Cells |-> 0])

\* ------------------------------------------------------------------------
\* utils/slats_integration.js : compareAnnualClearing
\* ------------------------------------------------------------------------
\* ee.Number.subtract
NumSubtract(a, b) == Num(a.n * b.d - b.n * a.d, a.d * b.d)

\* A number whose evaluation fails.
Failed == [n |-> 1, d |-> 0]

\* aggregate_array('year').distinct().sort()
RECURSIVE SortAscending(_)
SortAscending(S) ==
  IF S = {} THEN <<>>
  ELSE LET least == CHOOSE x \in S : \A y \in S : x <= y
       IN <<least>> \o SortAscending(S \ {least})

\* collection.filter(ee.Filter.eq('year', year)).first(): the first image
\* tagged with the year, null (no image) when there is none.
FirstOfYear(images, year) ==
  IF \E i \in DOMAIN images : images[i].year = year
    THEN images[CHOOSE i \in DOMAIN images :
                  /\ images[i].year = year
                  /\ \A j \in DOMAIN images :
                       images[j].year = year => i <= j].woody
    ELSE NoRaster

\* The function mapped over the years.  An image operation on a null image
\* fails, and with it every number derived from its result.
comparisonFeature(images, features, geometry, scale, year) ==
  LET woodyT1 == FirstOfYear(images, year)
      woodyT2 == FirstOfYear(images, year + 1)
      slatsYear ==
        {f \in features : f.cells \cap geometry # {} /\ f.YEAR = year}
      slatsArea == SumAREA(slatsYear)
      slatsHa == NumDivide(Int2Num(slatsArea), Int2Num(SquareMetresPerHectare))
  IN IF woodyT1 = NoRaster \/ woodyT2 = NoRaster
       THEN [year |-> year, dea_clearing_ha |-> Failed,
             slats_clearing_ha |-> slatsHa, difference_ha |-> Failed]
       ELSE LET deaClearing == detectClearing(woodyT1, woodyT2)
                deaArea == calculateArea([band |-> "clearing",
                                          values |-> deaClearing],
                                         geometry, scale)
                deaHa == NumDivide(Int2Num(deaArea["clearing"]),
                                   Int2Num(SquareMetresPerHectare))
            IN [year |-> year, dea_clearing_ha |-> deaHa,
                slats_clearing_ha |-> slatsHa,
                difference_ha |-> NumSubtract(deaHa, slatsHa)]

compareAnnualClearing(images, features, geometry, scale) ==
  LET years == SortAscending({images[i].year : i \in DOMAIN images})
  IN [i \in DOMAIN years |->
        comparisonFeature(images, features, geometry, scale, years[i])]

\* ------------------------------------------------------------------------
\* utils/slats_integration.js : validateWithSLATS
\* ------------------------------------------------------------------------
\* The four confusion rasters and their area sums in square metres.
ConfusionAreas(dea, slatsRaster, geometry, scale) ==
  LET agreement == [c \in Cells |-> PxAnd(dea[c], slatsRaster[c])]
      deaOnly == [c \in Cells |-> PxAnd(dea[c], PxNot(slatsRaster[c]))]
      slatsOnly == [c \in Cells |-> PxAnd(slatsRaster[c], PxNot(dea[c]))]
      neitherDetected ==
        [c \in Cells |-> PxAnd(PxNot(dea[c]), PxNot(slatsRaster[c]))]
  IN [true_positive |-> ReduceRegionSum(agreement, geometry, scale),
      false_positive |-> ReduceRegionSum(deaOnly, geometry, scale),
      false_negative |-> ReduceRegionSum(slatsOnly, geometry, scale),
      true_negative |-> ReduceRegionSum(neitherDetected, geometry, scale)]

\* The accuracy metrics derived from the four areas (in hectares).
accuracyMetricsRecallFromFP(tp, fp, fn, tn) ==
  LET precision == NumDivide(tp, NumAdd(tp, fp))
      recall == NumDivide(tp, NumAdd(tp, fp))
  IN [true_positive_ha |-> tp, false_positive_ha |-> fp,
      false_negative_ha |-> fn, true_negative_ha |-> tn,
      precision |-> precision, recall |-> recall,
      f1_score |-> NumDivide(NumMultiply(NumMultiply(precision, recall),
                                         Int2Num(2)),
                             NumAdd(precision, recall)),
      overall_accuracy |->
        NumDivide(NumAdd(tp, tn), NumAdd(NumAdd(NumAdd(tp, fp), fn), tn))]

accuracyMetrics(tp, fp, fn, tn) ==
  LET precision == NumDivide(tp, NumAdd(tp, fp))
      recall == NumDivide(tp, NumAdd(tp, fn))
      f1Score == NumDivide(NumMultiply(NumMultiply(precision, recall),
                                       Int2Num(2)),
                           NumAdd(precision, recall))
      accuracy == NumDivide(NumAdd(tp, tn),
                            NumAdd(NumAdd(NumAdd(tp, fp), fn), tn))
  IN [true_positive_ha |-> tp, false_positive_ha |-> fp,
      false_negative_ha |-> fn, true_negative_ha |-> tn,
      precision |-> precision, recall |-> recall,
      f1_score |-> f1Score, overall_accuracy |-> accuracy]

validateWithSLATS(dea, features, geometry, scale) ==
  LET slatsRaster == slatsToRaster(features, scale, geometry)
      areas == ConfusionAreas(dea, slatsRaster, geometry, scale)
      tp == NumDivide(Int2Num(areas.true_positive),
                      Int2Num(SquareMetresPerHectare))
      fp == NumDivide(Int2Num(areas.false_positive),
                      Int2Num(SquareMetresPerHectare))
      fn == NumDivide(Int2Num(areas.false_negative),
                      Int2Num(SquareMetresPerHectare))
      tn == NumDivide(Int2Num(areas.true_negative),
                      Int2Num(SquareMetresPerHectare))
  IN accuracyMetrics(tp, fp, fn, tn)

\* ------------------------------------------------------------------------
\* core/utils.js : createAnnualComposites
\* ------------------------------------------------------------------------
\* ee.Date.fromYMD(year, month, day) as a position on the time line: dates
\* compare as their (year, month, day) triples do.
DateFromYMD(year, month, day) == (year * 12 + (month - 1)) * 31 + (day - 1)

\* The acquisition time of an image of the collection.
TimeStart(image) == DateFromYMD(image.y, image.md[1], image.md[2])

\* ee.ImageCollection.filterDate(start, end): start inclusive, end exclusive.
filterDate(images, start, end) ==
  {o \in images : start <= TimeStart(o) /\ TimeStart(o) < end}

\* The k-th smallest value at cell c among the images (with repetitions).
KthSmallest(images, c, k) ==
  CHOOSE v \in {o.value[c] : o \in images} :
    /\ Cardinality({o \in images : o.value[c] < v}) < k
    /\ Cardinality({o \in images : o.value[c] <= v}) >= k

\* ee.ImageCollection.median(): the per-pixel median, the mean of the two
\* middle values for an even count; an empty collection gives an image
\* with no bands.
Median(images) ==
  LET n == Cardinality(images)
  IN IF n = 0 THEN NoRaster
     ELSE [c \in SeriesCells |->
             IF n % 2 = 1
               THEN Int2Num(KthSmallest(images, c, (n + 1) \div 2))
               ELSE Num(KthSmallest(images, c, n \div 2)
                          + KthSmallest(images, c, n \div 2 + 1), 2)]

\* ee.List.sequence(start, end) with the end left out.
ListSequenceExclusiveEnd(start, end) ==
  [i \in 1..(end - start) |-> start + i - 1]

\* ee.List.sequence(start, end)
ListSequence(start, end) == [i \in 1..(end - start + 1) |-> start + i - 1]

\* The function mapped over the years.
annualComposite(images, year) ==
  LET startDate == DateFromYMD(year, 1, 1)
      endDate == DateFromYMD(year, 12, 31)
  IN [image |-> Median(filterDate(images, startDate, endDate)),
      year |-> year,
      time_start |-> startDate]

createAnnualComposites(images, start, end) ==
  LET years == ListSequence(start, end)
  IN [i \in DOMAIN years |-> annualComposite(images, years[i])]

\* ------------------------------------------------------------------------
\* core/utils.js : createSeasonalComposites
\* ------------------------------------------------------------------------
\* The seasons table of createSeasonalComposites.
seasons ==
  <<[name |-> "DJF", months |-> <<12, 1, 2>>, label |-> "Summer"],
    [name |-> "MAM", months |-> <<3, 4, 5>>, label |-> "Autumn"],
    [name |-> "JJA", months |-> <<6, 7, 8>>, label |-> "Winter"],
    [name |-> "SON", months |-> <<9, 10, 11>>, label |-> "Spring"]>>

\* ee.Filter.calendarRange(start, end, 'month'): the images whose month
\* lies in start..end, both ends included; a range with start > end wraps
\* around the end of the year.  The year of an image plays no part.
calendarRangeMonth(images, start, end) ==
  {o \in images :
     IF start <= end
       THEN start <= o.md[1] /\ o.md[1] <= end
       ELSE o.md[1] >= start \/ o.md[1] <= end}

\* The function mapped over the seasons.
seasonalComposite(images, season, year) ==
  LET filtered == calendarRangeMonth(images, season.months[1],
                                     season.months[3])
  IN [image |-> Median(filtered),
      season |-> season.name,
      season_label |-> season.label,
      year |-> year]

createSeasonalComposites(images, year) ==
  [i \in DOMAIN seasons |-> seasonalComposite(images, seasons[i], year)]

\* ------------------------------------------------------------------------
\* core/utils.js : generateFilename, and the strings of the workflow script
\* ------------------------------------------------------------------------
\* core/config.js : EXPORT_CONFIG.NAMING
NAMING_PREFIX == "aus_lc"
NAMING_SEPARATOR == "_"

DigitChars == <<"0", "1", "2", "3", "4", "5", "6", "7", "8", "9">>

\* A string of decimal digits is held as the sequence of its digits.
RECURSIVE DecimalDigits(_)
DecimalDigits(n) ==
  IF n < 10 THEN <<n>> ELSE Append(DecimalDigits(n \div 10), n % 10)

\* parseInt on a string of decimal digits
RECURSIVE parseInt(_)
parseInt(digits) ==
  IF digits = <<>> THEN 0
  ELSE parseInt(SubSeq(digits, 1, Len(digits) - 1)) * 10 + digits[Len(digits)]

\* Number.prototype.toString of a non-negative integer
RECURSIVE toString(_)
toString(n) ==
  IF n < 10 THEN DigitChars[n + 1]
  ELSE toString(n \div 10) \o DigitChars[(n % 10) + 1]

\* Array.prototype.join
RECURSIVE Join(_, _)
Join(parts, separator) ==
  IF parts = <<>> THEN ""
  ELSE IF Len(parts) = 1 THEN parts[1]
  ELSE parts[1] \o separator \o Join(Tail(parts), separator)

generateFilenameArgumentOrder(prefix, region, year, product) ==
  Join(<<prefix, region, year, product>>, NAMING_SEPARATOR)

generateFilename(prefix, region, year, product) ==
  LET parts == <<prefix, region, product, year>>
  IN Join(parts, NAMING_SEPARATOR)

\* ------------------------------------------------------------------------
\* States in which a component is not the one under study
\* ------------------------------------------------------------------------
IdleClass ==
  /\ LAND_COVER_CLASSES = ShippedClasses
  /\ lcImage = NoRaster /\ woodyMask = NoRaster /\ simplified = NoRaster
IdleDetect ==
  /\ imgBefore = NoRaster /\ imgAfter = NoRaster /\ clearingOut = NoRaster
  /\ gridBefore = "" /\ gridAfter = "" /\ clearingRev = NoRaster
IdleTrack == series = <<>> /\ idx = 0 /\ acc = NoRaster
IdleValid == derived = NoRaster /\ polygons = {} /\ roi = {} /\ confusion = <<>>
IdleComp == observations = {} /\ fromYear = 0 /\ toYear = 0 /\ composites = <<>>
IdleArea ==
  areaImage = <<>> /\ areaRegion = {} /\ areaScale = 0 /\ areaStats = <<>>
IdleSlats ==
  /\ slatsFeatures = {} /\ slatsStart = 0 /\ slatsEnd = 0
  /\ slatsRegion = {} /\ slatsYearOut = NoRaster
IdleReclass == rcSource = "" /\ rcImage = NoRaster /\ rcOut = NoRaster

IdleFC ==
  fcInput = NoRaster /\ fcThresholdArg = <<>> /\ fcWoody = NoRaster

IdleFrames ==
  /\ regionName = "" /\ productName = "" /\ startYearText = <<>>
  /\ endYearText = <<>> /\ frameIdx = 0 /\ frameTasks = <<>>

IdleAnnual ==
  /\ stateName = "" /\ START_YEAR = 0 /\ END_YEAR = 0 /\ EXPORT_TO_DRIVE = FALSE
  /\ USE_ESA_WORLDCOVER = FALSE /\ USE_DYNAMIC_WORLD = FALSE
  /\ loopYear = 0 /\ mapLayers = <<>> /\ exportTasks = <<>>

IdleCompare ==
  /\ cmpSeries = <<>> /\ cmpFeatures = {} /\ cmpRegion = {}
  /\ comparison = <<>>

IdleSeason ==
  seasonal = <<>>

\* ------------------------------------------------------------------------
\* Classifier: createWoodyMask applied to a land cover raster
\* ------------------------------------------------------------------------
InitClassify ==
  /\ pc = "start"
  /\ LAND_COVER_CLASSES \in ClassMaps
  /\ lcImage \in [Cells -> InputCodes]
  /\ woodyMask = NoRaster
  /\ simplified = NoRaster
  /\ IdleDetect /\ IdleTrack /\ IdleValid /\ IdleComp /\ IdleArea /\ IdleSlats
  /\ IdleReclass
  /\ IdleFC
  /\ IdleFrames
  /\ IdleAnnual
  /\ IdleCompare
  /\ IdleSeason

CreateWoodyMask ==
  /\ pc = "start"
  /\ woodyMask' = createWoodyMask(lcImage)
  /\ pc' = "done"
  /\ UNCHANGED <<LAND_COVER_CLASSES, lcImage, simplified, detectVars,
                 trackVars, validVars, compVars, areaVars,
                 slatsVars, reclassVars, fcVars, frameVars, annualVars, cmpVars, seasonVars>>

\* simplifyLandCover followed by the evaluation of its result: the request
\* fails when remap rejects its arguments.
SimplifyLandCover ==
  /\ pc = "start"
  /\ simplified' = simplifyLandCover(lcImage)
  /\ pc' = IF simplified' = NoRaster THEN "failed" ELSE "simplified"
  /\ UNCHANGED <<LAND_COVER_CLASSES, lcImage, woodyMask, detectVars,
                 trackVars, validVars, compVars, areaVars,
                 slatsVars, reclassVars, fcVars, frameVars, annualVars, cmpVars, seasonVars>>

NextClassify == CreateWoodyMask \/ SimplifyLandCover

SpecClassify == InitClassify /\ [][NextClassify]_vars

\* ------------------------------------------------------------------------
\* Change detector: detectClearing applied to two woody masks
\* ------------------------------------------------------------------------
MaskValues == {0, 1, Masked}

\* The projections an input image may come in: the project's
\* PROJECTION.crs and a geographic one.
Grids == {"EPSG:3577", "EPSG:4326"}

\* The pixel values of both inputs are given on the cells of the output
\* grid, as the platform delivers them to a per-pixel operator.
InitDetect ==
  /\ pc = "start"
  /\ imgBefore \in [Cells -> MaskValues]
  /\ imgAfter \in [Cells -> MaskValues]
  /\ gridBefore \in Grids
  /\ gridAfter \in Grids
  /\ clearingOut = NoRaster
  /\ clearingRev = NoRaster
  /\ IdleClass /\ IdleTrack /\ IdleValid /\ IdleComp /\ IdleArea /\ IdleSlats
  /\ IdleReclass
  /\ IdleFC
  /\ IdleFrames
  /\ IdleAnnual
  /\ IdleCompare
  /\ IdleSeason

DetectClearing ==
  /\ pc = "start"
  /\ clearingOut' = detectClearing(imgBefore, imgAfter)
  /\ pc' = "done"
  /\ UNCHANGED <<imgBefore, imgAfter, gridBefore, gridAfter, clearingRev,
                 classVars, trackVars, validVars, compVars, areaVars,
                 slatsVars, reclassVars, fcVars, frameVars, annualVars, cmpVars, seasonVars>>

\* The same two masks with the arguments swapped: detectClearing(after, before).
DetectClearingReversed ==
  /\ pc = "done"
  /\ clearingRev' = detectClearing(imgAfter, imgBefore)
  /\ pc' = "reversed"
  /\ UNCHANGED <<imgBefore, imgAfter, gridBefore, gridAfter, clearingOut,
                 classVars, trackVars, validVars, compVars, areaVars,
                 slatsVars, reclassVars, fcVars, frameVars, annualVars, cmpVars, seasonVars>>

NextDetect == DetectClearing \/ DetectClearingReversed

SpecDetect == InitDetect /\ [][NextDetect]_vars

\* ------------------------------------------------------------------------
\* Cumulative tracker: cumulativeClearing folded over a woody time series
\* ------------------------------------------------------------------------
AnnualLayers ==
  [year : 1..MaxYear, woody : [SeriesCells -> {0, 1}]]

InitTrack ==
  /\ pc = "start"
  /\ \E n \in 0..MaxLayers : series \in [1..n -> AnnualLayers]
  /\ idx = 0
  /\ acc = NoRaster
  /\ IdleClass /\ IdleDetect /\ IdleValid /\ IdleComp /\ IdleArea /\ IdleSlats
  /\ IdleReclass
  /\ IdleFC
  /\ IdleFrames
  /\ IdleAnnual
  /\ IdleCompare
  /\ IdleSeason

\* list.get(0) on an empty list fails in the platform's List.get, the code
\* making no check of its own; otherwise the fold starts from the baseline
\* with a zero clearing_year band.
CumulativeStart ==
  /\ pc = "start"
  /\ IF Len(series) = 0
       THEN /\ pc' = "error"
            /\ acc' = EvaluationError("List.get")
            /\ UNCHANGED idx
       ELSE /\ pc' = "fold"
            /\ idx' = 2
            /\ acc' = cumulativeInitial(series[1])
  /\ UNCHANGED <<series, classVars, detectVars, validVars, compVars, areaVars,
                 slatsVars, reclassVars, fcVars, frameVars, annualVars, cmpVars, seasonVars>>

\* One call of the iterate() function on the next element of list.slice(1).
\* A call that fails makes the evaluation of cumulativeClearing fail.
CumulativeStep ==
  /\ pc = "fold"
  /\ idx <= Len(series)
  /\ acc' = cumulativeStep(series[idx], acc)
  /\ IF IsError(acc')
       THEN pc' = "error" /\ UNCHANGED idx
       ELSE pc' = "fold" /\ idx' = idx + 1
  /\ UNCHANGED <<series, classVars, detectVars, validVars, compVars, areaVars,
                 slatsVars, reclassVars, fcVars, frameVars, annualVars, cmpVars, seasonVars>>

\* The fold has visited every element: the accumulator is returned.
CumulativeReturn ==
  /\ pc = "fold"
  /\ idx > Len(series)
  /\ pc' = "done"
  /\ UNCHANGED <<trackVars, classVars, detectVars, validVars, compVars, areaVars,
                 slatsVars, reclassVars, fcVars, frameVars, annualVars, cmpVars, seasonVars>>

NextTrack == CumulativeStart \/ CumulativeStep \/ CumulativeReturn

SpecTrack == InitTrack /\ [][NextTrack]_vars

\* ------------------------------------------------------------------------
\* Claims about the cumulative tracker
\* ------------------------------------------------------------------------
StrictlyIncreasingYears(s) ==
  \A i \in 1..(Len(s) - 1) : s[i].year < s[i + 1].year

\* The indices i >= 2 at which cell c goes from woody in layer i-1 to
\* non-woody in layer i.
TransitionsAt(s, c) ==
  {i \in 2..Len(s) : s[i - 1].woody[c] = 1 /\ s[i].woody[c] = 0}

FirstTransitionYear(s, c) ==
  IF TransitionsAt(s, c) = {} THEN 0
  ELSE s[CHOOSE i \in TransitionsAt(s, c) :
             \A j \in TransitionsAt(s, c) : i <= j].year

\* The tracker has returned a raster or has failed.
TrackerFinished == pc \in {"done", "error"}

\* C1: for every ordered sequence of one or more binary layers the tracker
\* returns a raster in which, at every cell, clearing_year is the year of
\* the earliest layer whose immediate predecessor is woody while it is
\* non-woody, and 0 if there is none.
C1_FirstTransitionRule ==
  (TrackerFinished /\ Len(series) >= 1 /\ StrictlyIncreasingYears(series)) =>
    /\ pc = "done"
    /\ \A c \in SeriesCells :
         acc[c].clearing_year = FirstTransitionYear(series, c)

\* C2: once a cell's clearing_year is a non-zero year, every later step of
\* the fold leaves it at that year: no step resets it to 0 or advances it.
C2_WriteOnce ==
  [][\A c \in DOMAIN acc :
        (pc = "fold" /\ acc[c].clearing_year # 0) =>
          /\ ~IsError(acc')
          /\ acc'[c].clearing_year = acc[c].clearing_year]_vars

\* The fold holds a cell with a recorded year.
C2_YearRecorded ==
  /\ pc = "fold"
  /\ \E c \in DOMAIN acc : acc[c].clearing_year # 0

\* The failure the ordering precondition prescribes.
NonMonotonicYears == EvaluationError("NonMonotonicYears")

\* C13: when the years of the layers are not strictly increasing the tracker
\* fails with NonMonotonicYears and returns no raster.
C13_NonMonotonicRejected ==
  (TrackerFinished /\ ~StrictlyIncreasingYears(series)) =>
    /\ pc = "error"
    /\ acc = NonMonotonicYears

\* The failure prescribed for a sequence of zero layers.
EmptySequence == EvaluationError("EmptySequence")

\* C14: on a sequence of zero layers the tracker fails with EmptySequence
\* and returns no raster; on exactly one layer it succeeds and returns
\* clearing_year = 0 at every cell.
C14_EmptyAndSingle ==
  TrackerFinished =>
    /\ Len(series) = 0 => (pc = "error" /\ acc = EmptySequence)
    /\ Len(series) = 1 =>
         (pc = "done" /\ \A c \in SeriesCells : acc[c].clearing_year = 0)

\* The half of C14 about exactly one layer.
C14_SingleLayer ==
  (TrackerFinished /\ Len(series) = 1) =>
    (pc = "done" /\ \A c \in SeriesCells : acc[c].clearing_year = 0)

\* ------------------------------------------------------------------------
\* Claims about the classifier and the change detector
\* ------------------------------------------------------------------------
\* C3: every output cell of createWoodyMask is 1 if the input code is in the
\* WOODY class list and 0 otherwise (other categories and unmapped codes);
\* no other value occurs.
C3_WoodyMaskBinary ==
  pc = "done" =>
    \A c \in Cells :
      /\ woodyMask[c] \in {0, 1}
      /\ woodyMask[c] = 1 <=>
           lcImage[c] \in Range(LAND_COVER_CLASSES.WOODY.classes)

\* A classified raster holding a woody code and the unmapped code 999.
C3_Witness ==
  /\ pc = "done"
  /\ \E c, d \in Cells :
       /\ lcImage[c] = 999 /\ woodyMask[c] = 0
       /\ lcImage[d] = 111 /\ woodyMask[d] = 1

\* The codes of the five categories, in the order of simplifyLandCover.
CategoryCodes ==
  <<Range(LAND_COVER_CLASSES.WOODY.classes),
    Range(LAND_COVER_CLASSES.NON_WOODY.classes),
    Range(LAND_COVER_CLASSES.BARE.classes),
    Range(LAND_COVER_CLASSES.WATER.classes),
    Range(LAND_COVER_CLASSES.URBAN.classes)>>

\* No code is listed in two categories of the class map.
ClassMapDisjoint ==
  \A i, j \in DOMAIN CategoryCodes :
    i # j => CategoryCodes[i] \cap CategoryCodes[j] = {}

\* C18: with a code listed in more than one category, neither
\* createWoodyMask nor simplifyLandCover classifies any cell: a classified
\* raster exists only for a class map whose categories are disjoint.
C18_InvalidClassMapRejected ==
  (woodyMask # NoRaster \/ simplified # NoRaster) => ClassMapDisjoint

\* C19: the configured categories are pairwise disjoint, and
\* simplifyLandCover gives every cell the number (1..5) of the category
\* that lists its code, and 0 when no category lists it.
C19_ClassMapPartition ==
  (pc \in {"simplified", "failed"} /\ LAND_COVER_CLASSES = ShippedClasses) =>
    /\ ClassMapDisjoint
    /\ pc = "simplified"
    /\ \A c \in Cells :
         /\ \A k \in DOMAIN CategoryCodes :
              lcImage[c] \in CategoryCodes[k] => simplified[c] = k
         /\ (\A k \in DOMAIN CategoryCodes : lcImage[c] \notin CategoryCodes[k])
              => simplified[c] = 0

\* C4: on binary inputs detectClearing is 1 exactly where before = 1 and
\* after = 0, and 0 in the other three cases.
C4_ClearingTruthTable ==
  pc = "done" =>
    \A c \in Cells :
      (imgBefore[c] \in {0, 1} /\ imgAfter[c] \in {0, 1}) =>
        clearingOut[c] = (IF imgBefore[c] = 1 /\ imgAfter[c] = 0 THEN 1 ELSE 0)

\* A detection with a cleared cell and a regrowth cell.
C4_Witness ==
  /\ pc = "done"
  /\ \E c, d \in Cells :
       /\ imgBefore[c] = 1 /\ imgAfter[c] = 0 /\ clearingOut[c] = 1
       /\ imgBefore[d] = 0 /\ imgAfter[d] = 1 /\ clearingOut[d] = 0

IsBinary(image) == \A c \in DOMAIN image : image[c] \in {0, 1}

\* C15: detectClearing(X, X) is 0 at every cell for every binary raster X.
C15_SelfComparisonZero ==
  (pc \in {"done", "reversed"} /\ imgBefore = imgAfter /\ IsBinary(imgBefore)
     /\ gridBefore = gridAfter) =>
    \A c \in Cells : clearingOut[c] = 0

\* A raster with a woody and a non-woody cell compared with itself.
C15_Witness ==
  /\ pc = "done"
  /\ imgBefore = imgAfter
  /\ gridBefore = gridAfter
  /\ \E c, d \in Cells : imgBefore[c] = 1 /\ imgBefore[d] = 0
  /\ \A c \in Cells : clearingOut[c] = 0

\* C16: detectClearing(A, B) and detectClearing(B, A) are never both 1 at a
\* cell; where the first is 1 the second is 0, so the two results differ as
\* soon as one cell is cleared.
C16_Asymmetry ==
  pc = "reversed" =>
    /\ \A c \in Cells :
         /\ ~(clearingOut[c] = 1 /\ clearingRev[c] = 1)
         /\ clearingOut[c] = 1 => clearingRev[c] = 0
    /\ (\E c \in Cells : clearingOut[c] = 1) => clearingOut # clearingRev

\* Both calls made on a pair with a cleared cell and a regrowth cell.
C16_Witness ==
  /\ pc = "reversed"
  /\ \E c, d \in Cells :
       /\ clearingOut[c] = 1 /\ clearingRev[c] = 0
       /\ clearingOut[d] = 0 /\ clearingRev[d] = 1

\* C17: when the two rasters do not share the grid geometry detectClearing
\* fails and returns no raster: a returned result implies equal grids.
C17_GridMismatchRejected ==
  pc \in {"done", "reversed"} => gridBefore = gridAfter

\* ------------------------------------------------------------------------
\* Validator: validateWithSLATS on a derived raster, polygons and a region
\* ------------------------------------------------------------------------
\* Values of the AREA attribute of a polygon, in square metres.
AreaValues == {0, 5000}

SlatsPolygons == [cells : (SUBSET Cells) \ {{}}, AREA : AreaValues]

\* The region geometry covers at least one cell of the grid.
InitValidate ==
  /\ pc = "start"
  /\ derived \in [Cells -> {0, 1}]
  /\ polygons \in {P \in SUBSET SlatsPolygons : Cardinality(P) <= MaxPolygons}
  /\ roi \in (SUBSET Cells) \ {{}}
  /\ confusion = <<>>
  /\ IdleClass /\ IdleDetect /\ IdleTrack /\ IdleComp /\ IdleArea /\ IdleSlats
  /\ IdleReclass
  /\ IdleFC
  /\ IdleFrames
  /\ IdleAnnual
  /\ IdleCompare
  /\ IdleSeason

\* validateWithSLATS(deaClearing, slatsFeatures, region) with the scale
\* argument omitted, so that it falls back to config.PROJECTION.scale.
ValidateWithSLATS ==
  /\ pc = "start"
  /\ confusion' = validateWithSLATS(derived, polygons, roi, PROJECTION_scale)
  /\ pc' = "done"
  /\ UNCHANGED <<derived, polygons, roi, classVars, detectVars, trackVars,
                 compVars, areaVars,
                 slatsVars, reclassVars, fcVars, frameVars, annualVars, cmpVars, seasonVars>>

NextValidate == ValidateWithSLATS

SpecValidate == InitValidate /\ [][NextValidate]_vars

\* ------------------------------------------------------------------------
\* Claims about the validator
\* ------------------------------------------------------------------------
\* The area of the region's cells, in hectares.
RegionAreaHa ==
  Num(Cardinality(roi) * PixelArea(PROJECTION_scale), SquareMetresPerHectare)

BucketSumHa ==
  NumAdd(NumAdd(NumAdd(confusion.true_positive_ha, confusion.false_positive_ha),
                confusion.false_negative_ha),
         confusion.true_negative_ha)

\* C5: every cell of the region adds its area to exactly one of the four
\* buckets, so the four areas add up to the area of the region's cells.
C5_BucketsCoverRegion ==
  pc = "done" => BucketSumHa = RegionAreaHa

\* C6: precision is the null marker whenever TP + FP = 0 and recall is the
\* null marker whenever TP + FN = 0.
C6_NullPrecisionRecall ==
  pc = "done" =>
    /\ IsZero(NumAdd(confusion.true_positive_ha, confusion.false_positive_ha))
         => IsNull(confusion.precision)
    /\ IsZero(NumAdd(confusion.true_positive_ha, confusion.false_negative_ha))
         => IsNull(confusion.recall)

\* C7: f1 is the null marker whenever precision + recall = 0 or precision or
\* recall is itself null.
C7_NullF1 ==
  pc = "done" =>
    ((\/ IsNull(confusion.precision)
      \/ IsNull(confusion.recall)
      \/ IsZero(NumAdd(confusion.precision, confusion.recall)))
       => IsNull(confusion.f1_score))

\* C8: with non-zero denominators the reported metrics satisfy, by cross
\* multiplication over the returned areas, precision = TP/(TP+FP),
\* recall = TP/(TP+FN), f1 = 2pr/(p+r), accuracy = (TP+TN)/(TP+FP+FN+TN).
C8_MetricFormulas ==
  pc = "done" =>
    LET tp == confusion.true_positive_ha
        fp == confusion.false_positive_ha
        fn == confusion.false_negative_ha
        tn == confusion.true_negative_ha
        p == confusion.precision
        r == confusion.recall
    IN /\ ~IsZero(NumAdd(tp, fp)) => NumMultiply(p, NumAdd(tp, fp)) = tp
       /\ ~IsZero(NumAdd(tp, fn)) => NumMultiply(r, NumAdd(tp, fn)) = tp
       /\ ~IsZero(NumAdd(p, r)) =>
            NumMultiply(confusion.f1_score, NumAdd(p, r))
              = NumMultiply(Int2Num(2), NumMultiply(p, r))
       /\ ~IsZero(BucketSumHa) =>
            NumMultiply(confusion.overall_accuracy, BucketSumHa)
              = NumAdd(tp, tn)

\* A validation in which TP and FP are both positive and FN is zero, so
\* that precision is 1/2 and recall is 1.
C8_Witness ==
  /\ pc = "done"
  /\ confusion.true_positive_ha.n > 0
  /\ confusion.false_positive_ha.n > 0
  /\ confusion.false_negative_ha.n = 0
  /\ confusion.precision = Num(1, 2)
  /\ confusion.recall = Int2Num(1)
  /\ confusion.f1_score = Num(2, 3)

\* The reference raster validateWithSLATS rasterises from the polygons.
ReferenceRaster == slatsToRaster(polygons, PROJECTION_scale, roi)

\* C27: inside the region the reference raster is total and binary: 1 on
\* every cell covered by a polygon, whatever its AREA, and the value 0 (not
\* no-data) on every cell covered by none.
C27_TotalBinaryReference ==
  pc = "done" =>
    \A c \in roi :
      ReferenceRaster[c] = IF \E f \in polygons : c \in f.cells THEN 1 ELSE 0

\* ------------------------------------------------------------------------
\* Compositor: createAnnualComposites on a collection of dated images
\* ------------------------------------------------------------------------
\* Acquisition days (month, day) and pixel values of the observations.
ObsDays == {<<1, 1>>, <<6, 15>>, <<12, 31>>}
ObsValues == {111, 211}

Observations ==
  [y : 1..MaxCompYear, md : ObsDays, value : [SeriesCells -> ObsValues]]

InitComposite ==
  /\ pc = "start"
  \* a collection of at most MaxObs images
  /\ \E k \in 0..MaxObs :
       \E s \in [1..k -> Observations] : observations = Range(s)
  /\ fromYear \in 1..MaxCompYear
  /\ toYear \in fromYear..MaxCompYear
  /\ composites = <<>>
  /\ IdleClass /\ IdleDetect /\ IdleTrack /\ IdleValid /\ IdleArea /\ IdleSlats
  /\ IdleReclass
  /\ IdleFC
  /\ IdleFrames
  /\ IdleAnnual
  /\ IdleCompare
  /\ IdleSeason

CreateAnnualComposites ==
  /\ pc = "start"
  /\ composites' = createAnnualComposites(observations, fromYear, toYear)
  /\ pc' = "done"
  /\ UNCHANGED <<observations, fromYear, toYear, classVars, detectVars,
                 trackVars, validVars, areaVars,
                 slatsVars, reclassVars, fcVars, frameVars, annualVars, cmpVars, seasonVars>>

CreateSeasonalComposites ==
  /\ pc = "start"
  /\ seasonal' = createSeasonalComposites(observations, fromYear)
  /\ pc' = "seasonal"
  /\ UNCHANGED <<observations, fromYear, toYear, composites, classVars,
                 detectVars, trackVars, validVars, areaVars, slatsVars,
                 reclassVars, fcVars, frameVars, annualVars, cmpVars>>

NextComposite == CreateAnnualComposites \/ CreateSeasonalComposites

SpecComposite == InitComposite /\ [][NextComposite]_vars

\* ------------------------------------------------------------------------
\* Claims about the compositor
\* ------------------------------------------------------------------------
\* The observations acquired in calendar year Y: from 1 January of Y up to,
\* but not including, 1 January of Y + 1.
InCalendarYear(Y) ==
  {o \in observations :
     /\ DateFromYMD(Y, 1, 1) <= TimeStart(o)
     /\ TimeStart(o) < DateFromYMD(Y + 1, 1, 1)}

\* C9: the composite of year Y is the per-cell median over exactly the
\* observations acquired in calendar year Y, 31 December included.
C9_CalendarYearWindow ==
  pc = "done" =>
    \A i \in DOMAIN composites :
      composites[i].image = Median(InCalendarYear(composites[i].year))

\* C10: a year whose window holds no observation makes compositing fail and
\* yields no composite: a returned result never holds an image without data
\* tagged with a year.
C10_NoEmptyComposite ==
  pc = "done" =>
    \A i \in DOMAIN composites : composites[i].image # NoRaster

\* core/config.js : QUALITY_CONTROL.MIN_OBSERVATIONS
MIN_OBSERVATIONS == 3

\* The properties createAnnualComposites sets on a composite.
CompositeProperties(composite) == DOMAIN composite \ {"image"}

\* The number of observations in the window the composite of a year is
\* built from.
WindowCount(year) ==
  Cardinality(filterDate(observations, DateFromYMD(year, 1, 1),
                         DateFromYMD(year, 12, 31)))

\* C20: a composite built from at least one but fewer than
\* MIN_OBSERVATIONS observations exists and carries a quality flag (a
\* property besides the year and the start time); a composite built from
\* MIN_OBSERVATIONS or more carries none.
C20_MinObservationFlag ==
  pc = "done" =>
    \A i \in DOMAIN composites :
      LET n == WindowCount(composites[i].year)
          flags == CompositeProperties(composites[i]) \ {"year", "time_start"}
      IN /\ (1 <= n /\ n < MIN_OBSERVATIONS) =>
              (composites[i].image # NoRaster /\ flags # {})
         /\ n >= MIN_OBSERVATIONS => flags = {}

\* C29: for startYear <= endYear createAnnualComposites returns exactly
\* endYear - startYear + 1 composites, the i-th tagged with the year
\* startYear + i - 1, so one for each year of the range and none for any
\* other, in strictly increasing year order as the tracker requires.
C29_OutputShape ==
  pc = "done" =>
    /\ Len(composites) = toYear - fromYear + 1
    /\ \A i \in DOMAIN composites : composites[i].year = fromYear + i - 1
    /\ {composites[i].year : i \in DOMAIN composites} = fromYear..toYear
    /\ StrictlyIncreasingYears(composites)

\* A range of more than one year has been composited.
C29_Witness ==
  /\ pc = "done"
  /\ fromYear < toYear
  /\ Len(composites) = toYear - fromYear + 1
  /\ composites[1].year = fromYear
  /\ composites[Len(composites)].year = toYear

\* The observations dated in year Y's occurrence of a season: the month is
\* one of the season's three months and the year is Y; for DJF the
\* December is that of Y - 1 or that of Y, whichever the reader prefers.
InSeasonOfYear(season, Y, decemberOf) ==
  {o \in observations :
     /\ \E k \in 1..3 : o.md[1] = season.months[k]
     /\ o.y = IF o.md[1] = 12 /\ season.name = "DJF" THEN decemberOf ELSE Y}

\* C30: createSeasonalComposites returns four composites labelled DJF, MAM,
\* JJA, SON, and the composite of a season of year Y is the median over
\* only the observations dated in year Y's occurrence of that season.
C30_SeasonOfYearOnly ==
  pc = "seasonal" =>
    /\ Len(seasonal) = 4
    /\ <<seasonal[1].season, seasonal[2].season, seasonal[3].season,
         seasonal[4].season>> = <<"DJF", "MAM", "JJA", "SON">>
    /\ \A i \in DOMAIN seasonal :
         \E decemberOf \in {seasonal[i].year - 1, seasonal[i].year} :
           seasonal[i].image
             = Median(InSeasonOfYear(seasons[i], seasonal[i].year,
                                     decemberOf))

\* ------------------------------------------------------------------------
\* Area aggregator: calculateArea on a one-band image and a region
\* ------------------------------------------------------------------------
\* Pixel values: background (0), the class of interest (1) and a further
\* category (2).  Scale arguments: omitted (0) and 10 metres.
AreaValuesOfPixel == {0, 1, 2}
BandNames == {"clearing", "woody"}
ScaleArgs == {0, 10}

InitArea ==
  /\ pc = "start"
  /\ areaImage \in [band : BandNames, values : [Cells -> AreaValuesOfPixel]]
  /\ areaRegion \in SUBSET Cells
  /\ areaScale \in ScaleArgs
  /\ areaStats = <<>>
  /\ IdleClass /\ IdleDetect /\ IdleTrack /\ IdleValid /\ IdleComp /\ IdleSlats
  /\ IdleReclass
  /\ IdleFC
  /\ IdleFrames
  /\ IdleAnnual
  /\ IdleCompare
  /\ IdleSeason

CalculateArea ==
  /\ pc = "start"
  /\ areaStats' = calculateArea(areaImage, areaRegion, areaScale)
  /\ pc' = "done"
  /\ UNCHANGED <<areaImage, areaRegion, areaScale, classVars, detectVars,
                 trackVars, validVars, compVars, slatsVars, reclassVars,
                 fcVars, frameVars, annualVars, cmpVars, seasonVars>>

NextArea == CalculateArea

SpecArea == InitArea /\ [][NextArea]_vars

\* ------------------------------------------------------------------------
\* Claims about the area aggregator
\* ------------------------------------------------------------------------
CellArea == PixelArea(ScaleOrDefault(areaScale))

\* The in-region cells that hold a non-background value.
QualifyingCells == {c \in areaRegion : areaImage.values[c] \notin {0, Masked}}

\* C11 (as stated): every in-region cell with a non-background value adds
\* its own area once, whatever the magnitude of the value, and cells outside
\* the region add nothing.
C11_PlainAreaSum ==
  pc = "done" =>
    areaStats[areaImage.band] = CellArea * Cardinality(QualifyingCells)

\* C11 (amended): for a binary raster the area reported under the band's
\* name is the cell area times the number of in-region cells equal to 1.
C11_BinaryAreaSum ==
  (pc = "done" /\ IsBinary(areaImage.values)) =>
    areaStats[areaImage.band]
      = CellArea * Cardinality({c \in areaRegion : areaImage.values[c] = 1})

\* One cleared cell of area 100 inside the region and one outside it give
\* an area of 100.
C11_Witness ==
  /\ pc = "done"
  /\ IsBinary(areaImage.values)
  /\ CellArea = 100
  /\ \E c \in areaRegion : areaImage.values[c] = 1
  /\ \E c \in Cells \ areaRegion : areaImage.values[c] = 1
  /\ areaStats[areaImage.band] = 100

\* C12 (as stated): when no cell qualifies inside the region the returned
\* mapping is empty: it has no key.
C12_EmptyMapping ==
  (pc = "done" /\ QualifyingCells = {}) => DOMAIN areaStats = {}

\* C12 (amended): when no cell qualifies inside the region the call still
\* succeeds and the mapping holds the band's name as its only key, with
\* area 0.
C12_ZeroAreaEntry ==
  (pc = "done" /\ QualifyingCells = {}) =>
    /\ DOMAIN areaStats = {areaImage.band}
    /\ areaStats[areaImage.band] = 0

\* A region that excludes every cell of a raster that has cleared cells.
C12_Witness ==
  /\ pc = "done"
  /\ areaRegion = {}
  /\ \E c \in Cells : areaImage.values[c] = 1
  /\ areaStats = [b \in {areaImage.band} |-> 0]

\* ------------------------------------------------------------------------
\* SLATS series: cumulativeSLATSClearing on dated clearing polygons
\* ------------------------------------------------------------------------
\* The polygons lie on the cells of the series grid; the remaining cells of
\* the raster grid are covered by no polygon and lie outside the region.
DatedPolygons ==
  [cells : (SUBSET SeriesCells) \ {{}}, AREA : AreaValues, YEAR : 1..MaxYear]

InitSlats ==
  /\ pc = "start"
  \* a collection of at most MaxPolygons polygons
  /\ \E k \in 0..MaxPolygons :
       \E s \in [1..k -> DatedPolygons] : slatsFeatures = Range(s)
  /\ slatsStart \in 1..MaxYear
  /\ slatsEnd \in slatsStart..MaxYear
  /\ slatsRegion \in SUBSET SeriesCells
  /\ slatsYearOut = NoRaster
  /\ IdleClass /\ IdleDetect /\ IdleTrack /\ IdleValid /\ IdleComp /\ IdleArea
  /\ IdleReclass
  /\ IdleFC
  /\ IdleFrames
  /\ IdleAnnual
  /\ IdleCompare
  /\ IdleSeason

\* cumulativeSLATSClearing with the scale argument omitted.
CumulativeSLATSClearing ==
  /\ pc = "start"
  /\ slatsYearOut' = cumulativeSLATSClearing(slatsFeatures, slatsStart, slatsEnd,
                                             slatsRegion, PROJECTION_scale)
  /\ pc' = "done"
  /\ UNCHANGED <<slatsFeatures, slatsStart, slatsEnd, slatsRegion, classVars,
                 detectVars, trackVars, validVars, compVars, areaVars,
                 reclassVars, fcVars, frameVars, annualVars, cmpVars, seasonVars>>

NextSlats == CumulativeSLATSClearing

SpecSlats == InitSlats /\ [][NextSlats]_vars

\* ------------------------------------------------------------------------
\* Claims about the SLATS series
\* ------------------------------------------------------------------------
\* The annual SLATS raster of a year of the range.
AnnualSlatsRaster(Y) ==
  slatsToRaster({f \in slatsFeatures : f.YEAR = Y}, PROJECTION_scale,
                slatsRegion)

\* The years of the range whose annual raster is 1 at a cell.
ClearedYears(c) == {Y \in slatsStart..slatsEnd : AnnualSlatsRaster(Y)[c] = 1}

\* C21: every cell of the result holds the smallest year of the range whose
\* annual SLATS raster is 1 there, and 0 when there is no such year.
C21_FirstSlatsYear ==
  pc = "done" =>
    \A c \in Cells :
      slatsYearOut[c] =
        IF ClearedYears(c) = {} THEN 0
        ELSE CHOOSE Y \in ClearedYears(c) : \A Z \in ClearedYears(c) : Y <= Z

\* A cell cleared in two years of the range keeps the earlier year.
C21_Witness ==
  /\ pc = "done"
  /\ \E c \in Cells :
       /\ Cardinality(ClearedYears(c)) >= 2
       /\ slatsYearOut[c] \in ClearedYears(c)
       /\ \E Z \in ClearedYears(c) : slatsYearOut[c] < Z

\* ------------------------------------------------------------------------
\* Export script: reclassification of a land cover image
\* ------------------------------------------------------------------------
\* The codes of the two products as the script documents them, a code the
\* tables do not list, and no-data.
ESACodes == {10, 20, 30, 40, 50, 60, 70, 80, 90, 95, 100}
DynamicWorldCodes == 0..8
UnlistedCode == 255
SourceCodes(source) ==
  (IF source = "ESA" THEN ESACodes ELSE DynamicWorldCodes)
    \cup {UnlistedCode, Masked}

InitReclass ==
  /\ pc = "start"
  /\ rcSource \in {"ESA", "DynamicWorld"}
  /\ rcImage \in [Cells -> SourceCodes(rcSource)]
  /\ rcOut = NoRaster
  /\ IdleClass /\ IdleDetect /\ IdleTrack /\ IdleValid /\ IdleComp /\ IdleArea
  /\ IdleSlats /\ IdleFC /\ IdleFrames /\ IdleAnnual /\ IdleCompare
  /\ IdleSeason

ReclassifyESA ==
  /\ pc = "start"
  /\ rcSource = "ESA"
  /\ rcOut' = reclassifyESAToWoodyNonwoody(rcImage)
  /\ pc' = "done"
  /\ UNCHANGED <<rcSource, rcImage, classVars, detectVars, trackVars,
                 validVars, compVars, areaVars, slatsVars, fcVars, frameVars,
                 annualVars, cmpVars, seasonVars>>

ReclassifyDynamicWorld ==
  /\ pc = "start"
  /\ rcSource = "DynamicWorld"
  /\ rcOut' = reclassifyDynamicWorldToWoodyNonwoody(rcImage)
  /\ pc' = "done"
  /\ UNCHANGED <<rcSource, rcImage, classVars, detectVars, trackVars,
                 validVars, compVars, areaVars, slatsVars, fcVars, frameVars,
                 annualVars, cmpVars, seasonVars>>

NextReclass == ReclassifyESA \/ ReclassifyDynamicWorld

SpecReclass == InitReclass /\ [][NextReclass]_vars

\* ------------------------------------------------------------------------
\* Claims about the reclassification
\* ------------------------------------------------------------------------
\* The documented woody and non-woody codes of the selected product.
DocumentedWoody == IF rcSource = "ESA" THEN {10, 20, 95} ELSE {1, 5}
DocumentedNonWoody == IF rcSource = "ESA" THEN {30, 40, 90} ELSE {2, 3, 4}

\* The two tests of the overwrite steps, as the script computes them.
WoodyTest == IF rcSource = "ESA" THEN esaWoody(rcImage) ELSE dwWoody(rcImage)
NonWoodyTest ==
  IF rcSource = "ESA" THEN esaNonWoody(rcImage) ELSE dwNonWoody(rcImage)

\* C22: the output has a value in {0, 1, 2} on every cell of the input: 1
\* exactly on the documented woody codes, 2 exactly on the documented
\* non-woody codes, 0 elsewhere; the two tests are never both true on a cell.
C22_ReclassTable ==
  pc = "done" =>
    /\ DOMAIN rcOut = DOMAIN rcImage
    /\ \A c \in DOMAIN rcImage :
         /\ rcOut[c] \in {0, 1, 2}
         /\ rcOut[c] = 1 <=> rcImage[c] \in DocumentedWoody
         /\ rcOut[c] = 2 <=> rcImage[c] \in DocumentedNonWoody
         /\ ~ (WoodyTest[c] = 1 /\ NonWoodyTest[c] = 1)

\* An ESA image with mangroves (95) and an unlisted code, reclassified.
C22_Witness ==
  /\ pc = "done"
  /\ rcSource = "ESA"
  /\ \E c, d \in Cells :
       /\ rcImage[c] = 95 /\ rcOut[c] = 1
       /\ rcImage[d] = UnlistedCode /\ rcOut[d] = 0

\* ------------------------------------------------------------------------
\* Fractional cover: woodyFromFractionalCover on a PV / NPV image
\* ------------------------------------------------------------------------
\* Cover fractions in percent, and the threshold arguments of a call.
PVValues == {0, 10, 25}
NPVValues == {0, 10}
ThresholdArgs == {Omitted, Supplied(0), Supplied(30)}

InitFC ==
  /\ pc = "start"
  /\ fcInput \in [Cells -> [PV : PVValues, NPV : NPVValues]]
  /\ fcThresholdArg \in ThresholdArgs
  /\ fcWoody = NoRaster
  /\ IdleClass /\ IdleDetect /\ IdleTrack /\ IdleValid /\ IdleComp /\ IdleArea
  /\ IdleSlats /\ IdleReclass /\ IdleFrames /\ IdleAnnual /\ IdleCompare
  /\ IdleSeason

WoodyFromFractionalCover ==
  /\ pc = "start"
  /\ fcWoody' = woodyFromFractionalCover(fcInput, fcThresholdArg)
  /\ pc' = "done"
  /\ UNCHANGED <<fcInput, fcThresholdArg, classVars, detectVars, trackVars,
                 validVars, compVars, areaVars, slatsVars, reclassVars,
                 frameVars, annualVars, cmpVars, seasonVars>>

NextFC == WoodyFromFractionalCover

SpecFC == InitFC /\ [][NextFC]_vars

\* ------------------------------------------------------------------------
\* Claims about the fractional cover classifier
\* ------------------------------------------------------------------------
\* C23: a cell is woody exactly when PV + NPV is strictly greater than the
\* threshold: the caller's value when one is supplied (0 included), and 20
\* only when the argument is omitted.
C23_ThresholdRule ==
  pc = "done" =>
    LET threshold ==
          IF fcThresholdArg.supplied THEN fcThresholdArg.value ELSE 20
    IN \A c \in Cells :
         fcWoody[c] = IF fcInput[c].PV + fcInput[c].NPV > threshold THEN 1 ELSE 0

\* ------------------------------------------------------------------------
\* Main workflow: the loop that exports one GeoTIFF frame per year
\* ------------------------------------------------------------------------
\* The first year of the Landsat record is YearOrigin + 1.
YearOrigin == 1987
RegionNames == {"continental", "moree_plains", "qld"}
ProductNames == {"woody_binary", "land_cover", "fractional_cover"}

\* ee.List.sequence(parseInt(startYear), parseInt(endYear)).getInfo()
FrameYears == ListSequence(parseInt(startYearText), parseInt(endYearText))

InitFrames ==
  /\ pc = "start"
  /\ regionName \in RegionNames
  /\ productName \in ProductNames
  /\ \E a \in 1..MaxYear : \E b \in a..MaxYear :
       /\ startYearText = DecimalDigits(YearOrigin + a)
       /\ endYearText = DecimalDigits(YearOrigin + b)
  /\ frameIdx = 0
  /\ frameTasks = <<>>
  /\ IdleClass /\ IdleDetect /\ IdleTrack /\ IdleValid /\ IdleComp /\ IdleArea
  /\ IdleSlats /\ IdleReclass /\ IdleFC /\ IdleAnnual /\ IdleCompare
  /\ IdleSeason

\* One call of the forEach callback: the export task of the next year.
ExportFrame ==
  /\ pc = "start"
  /\ frameIdx < Len(FrameYears)
  /\ LET year == FrameYears[frameIdx + 1]
         filename == generateFilename(NAMING_PREFIX, regionName,
                                      toString(year), productName)
     IN frameTasks' = Append(frameTasks,
                             [year |-> year, description |-> filename,
                              fileNamePrefix |-> filename])
  /\ frameIdx' = frameIdx + 1
  /\ UNCHANGED <<pc, regionName, productName, startYearText, endYearText,
                 classVars, detectVars, trackVars, validVars, compVars,
                 areaVars, slatsVars, reclassVars, fcVars, annualVars, cmpVars, seasonVars>>

\* forEach has handled every year.
ExportFramesDone ==
  /\ pc = "start"
  /\ frameIdx = Len(FrameYears)
  /\ pc' = "done"
  /\ UNCHANGED <<regionName, productName, startYearText, endYearText,
                 frameIdx, frameTasks, classVars, detectVars, trackVars,
                 validVars, compVars, areaVars, slatsVars, reclassVars, fcVars,
                 annualVars, cmpVars, seasonVars>>

NextFrames == ExportFrame \/ ExportFramesDone

SpecFrames == InitFrames /\ [][NextFrames]_vars

\* ------------------------------------------------------------------------
\* Claims about the export file names
\* ------------------------------------------------------------------------
\* C24: every export name is prefix, region, product and year, in this
\* order, joined by '_', and the tasks of two different years have two
\* different names.
C24_FrameNames ==
  /\ \A i \in DOMAIN frameTasks :
       frameTasks[i].fileNamePrefix =
         NAMING_PREFIX \o "_" \o regionName \o "_" \o productName \o "_"
           \o toString(frameTasks[i].year)
  /\ \A i, j \in DOMAIN frameTasks :
       frameTasks[i].year # frameTasks[j].year
         => frameTasks[i].fileNamePrefix # frameTasks[j].fileNamePrefix

\* The frames of 1989 and 1990 exported for the continental woody product.
C24_Witness ==
  /\ pc = "done"
  /\ \E i, j \in DOMAIN frameTasks :
       /\ frameTasks[i].fileNamePrefix = "aus_lc_continental_woody_binary_1989"
       /\ frameTasks[j].fileNamePrefix = "aus_lc_continental_woody_binary_1990"

\* ------------------------------------------------------------------------
\* Annual export script: the loop over the years
\* ------------------------------------------------------------------------
\* The configured years range over the years around the two years ESA
\* WorldCover is available for.
FirstConfigYear == 2019
LastConfigYear == 2020 + MaxYear
ConfigYears == FirstConfigYear..LastConfigYear

\* The data source the loop body uses for a year ("none": the body ends
\* with continue).
SourceFor(y) ==
  IF USE_ESA_WORLDCOVER
    THEN (IF y >= 2020 /\ y <= 2021 THEN "ESA" ELSE "none")
    ELSE IF USE_DYNAMIC_WORLD THEN "DynamicWorld" ELSE "none"

\* The layer 'Study Area' is on the map before the loop starts.
InitAnnual ==
  /\ pc = "start"
  /\ stateName \in {"NSW", "QLD", "BOTH"}
  /\ START_YEAR \in ConfigYears
  /\ END_YEAR \in ConfigYears
  /\ EXPORT_TO_DRIVE \in BOOLEAN
  /\ USE_ESA_WORLDCOVER \in BOOLEAN
  /\ USE_DYNAMIC_WORLD \in BOOLEAN
  /\ loopYear = START_YEAR
  /\ mapLayers = <<[name |-> "Study Area", year |-> 0]>>
  /\ exportTasks = <<>>
  /\ IdleClass /\ IdleDetect /\ IdleTrack /\ IdleValid /\ IdleComp /\ IdleArea
  /\ IdleSlats /\ IdleReclass /\ IdleFC /\ IdleFrames /\ IdleCompare
  /\ IdleSeason

\* A loop body that ends with continue.
SkipYear ==
  /\ pc = "start"
  /\ loopYear <= END_YEAR
  /\ SourceFor(loopYear) = "none"
  /\ loopYear' = loopYear + 1
  /\ UNCHANGED <<pc, stateName, START_YEAR, END_YEAR, EXPORT_TO_DRIVE,
                 USE_ESA_WORLDCOVER, USE_DYNAMIC_WORLD, mapLayers, exportTasks,
                 classVars, detectVars, trackVars, validVars, compVars,
                 areaVars, slatsVars, reclassVars, fcVars, frameVars,
                 cmpVars, seasonVars>>

ExportYearEvenWithoutData ==
  /\ pc = "start"
  /\ loopYear <= END_YEAR
  /\ exportTasks' =
       Append(exportTasks,
              [year |-> loopYear, source |-> SourceFor(loopYear),
               fileNamePrefix |-> stateName \o "_landcover_" \o toString(loopYear),
               target |-> IF EXPORT_TO_DRIVE THEN "drive" ELSE "asset"])
  /\ loopYear' = loopYear + 1
  /\ UNCHANGED <<pc, stateName, START_YEAR, END_YEAR, EXPORT_TO_DRIVE,
                 USE_ESA_WORLDCOVER, USE_DYNAMIC_WORLD, mapLayers,
                 classVars, detectVars, trackVars, validVars, compVars,
                 areaVars, slatsVars, reclassVars, fcVars, frameVars,
                 cmpVars, seasonVars>>

\* A loop body that runs to its end: load, reclassify, clip, add the layer
\* when the year is END_YEAR, and create the export task.
ExportYear ==
  /\ pc = "start"
  /\ loopYear <= END_YEAR
  /\ SourceFor(loopYear) # "none"
  /\ mapLayers' =
       IF loopYear = END_YEAR
         THEN Append(mapLayers,
                     [name |-> "Landcover " \o toString(loopYear),
                      year |-> loopYear])
         ELSE mapLayers
  /\ exportTasks' =
       Append(exportTasks,
              [year |-> loopYear, source |-> SourceFor(loopYear),
               fileNamePrefix |-> stateName \o "_landcover_" \o toString(loopYear),
               target |-> IF EXPORT_TO_DRIVE THEN "drive" ELSE "asset"])
  /\ loopYear' = loopYear + 1
  /\ UNCHANGED <<pc, stateName, START_YEAR, END_YEAR, EXPORT_TO_DRIVE,
                 USE_ESA_WORLDCOVER, USE_DYNAMIC_WORLD,
                 classVars, detectVars, trackVars, validVars, compVars,
                 areaVars, slatsVars, reclassVars, fcVars, frameVars,
                 cmpVars, seasonVars>>

\* The loop condition year <= END_YEAR is false.
LoopExit ==
  /\ pc = "start"
  /\ loopYear > END_YEAR
  /\ pc' = "done"
  /\ UNCHANGED <<annualVars, classVars, detectVars, trackVars, validVars,
                 compVars, areaVars, slatsVars, reclassVars, fcVars, frameVars,
                 cmpVars, seasonVars>>

NextAnnual == SkipYear \/ ExportYear \/ LoopExit

\* The script runs to its end: no step of the loop waits for anything.
SpecAnnual == InitAnnual /\ [][NextAnnual]_vars /\ WF_vars(NextAnnual)

\* ------------------------------------------------------------------------
\* Claims about the annual export loop
\* ------------------------------------------------------------------------
\* A data source is selected and has data for the year.
HasData(y) ==
  IF USE_ESA_WORLDCOVER THEN 2020 <= y /\ y <= 2021 ELSE USE_DYNAMIC_WORLD

TasksOf(y) == {i \in DOMAIN exportTasks : exportTasks[i].year = y}

\* The layers the loop has added.
LandcoverLayers == {i \in DOMAIN mapLayers : mapLayers[i].year # 0}

\* The years the loop has gone through.
YearsHandled == START_YEAR..(loopYear - 1)

AnnualLoopSafety ==
  /\ \A y \in YearsHandled :
       Cardinality(TasksOf(y)) = IF HasData(y) THEN 1 ELSE 0
  /\ \A i \in DOMAIN exportTasks :
       /\ exportTasks[i].year \in YearsHandled
       /\ USE_ESA_WORLDCOVER => exportTasks[i].source = "ESA"
  /\ \A i \in LandcoverLayers : TasksOf(mapLayers[i].year) # {}
  /\ loopYear <= END_YEAR + 1 \/ loopYear = START_YEAR

\* C25: a year gets exactly one export task when a source is selected and
\* has data for it and none otherwise, a skipped year adds no layer, ESA
\* takes precedence, and the loop ends after END_YEAR.
C25_AnnualExportLoop ==
  /\ [](AnnualLoopSafety)
  /\ <>(pc = "done" /\ (START_YEAR <= END_YEAR => loopYear = END_YEAR + 1))

\* ESA and Dynamic World both enabled for 2019 to 2022: the loop has ended
\* with the tasks of 2020 and 2021 only, both from ESA.
C25_Witness ==
  /\ pc = "done"
  /\ USE_ESA_WORLDCOVER /\ USE_DYNAMIC_WORLD
  /\ START_YEAR = 2019 /\ END_YEAR = 2022
  /\ {exportTasks[i].year : i \in DOMAIN exportTasks} = {2020, 2021}

\* C26: once the loop has ended with at least one export task, the map
\* holds exactly one landcover layer, that of the last exported year.
C26_LastYearLayer ==
  (pc = "done" /\ exportTasks # <<>>) =>
    /\ Cardinality(LandcoverLayers) = 1
    /\ \A i \in LandcoverLayers :
         mapLayers[i].year = exportTasks[Len(exportTasks)].year

\* ------------------------------------------------------------------------
\* Annual comparison: compareAnnualClearing on a woody time series
\* ------------------------------------------------------------------------
\* A woody time series lists its layers by increasing year; years may be
\* missing.
WoodySeries ==
  UNION {{s \in [1..n -> AnnualLayers] :
            \A i \in 1..(n - 1) : s[i].year < s[i + 1].year} :
         n \in 0..MaxLayers}

InitCompare ==
  /\ pc = "start"
  /\ cmpSeries \in WoodySeries
  \* a collection of at most MaxPolygons polygons
  /\ \E k \in 0..MaxPolygons :
       \E s \in [1..k -> DatedPolygons] : cmpFeatures = Range(s)
  /\ cmpRegion \in SUBSET SeriesCells
  /\ comparison = <<>>
  /\ IdleClass /\ IdleDetect /\ IdleTrack /\ IdleValid /\ IdleComp /\ IdleArea
  /\ IdleSlats /\ IdleReclass /\ IdleFC /\ IdleFrames /\ IdleAnnual
  /\ IdleSeason

\* compareAnnualClearing with the scale argument omitted.
CompareAnnualClearing ==
  /\ pc = "start"
  /\ comparison' = compareAnnualClearing(cmpSeries, cmpFeatures, cmpRegion, 0)
  /\ pc' = "done"
  /\ UNCHANGED <<cmpSeries, cmpFeatures, cmpRegion, classVars, detectVars,
                 trackVars, validVars, compVars, areaVars, slatsVars,
                 reclassVars, fcVars, frameVars, annualVars, seasonVars>>

NextCompare == CompareAnnualClearing

SpecCompare == InitCompare /\ [][NextCompare]_vars

\* ------------------------------------------------------------------------
\* Claims about the annual comparison
\* ------------------------------------------------------------------------
HasLayer(y) == \E i \in DOMAIN cmpSeries : cmpSeries[i].year = y

\* The area, in hectares, of the region's cells that are woody in the layer
\* of year y and not woody in the layer of year y + 1.
PairClearingHa(y) ==
  Num(PixelArea(PROJECTION_scale)
        * Cardinality({c \in cmpRegion :
                         /\ FirstOfYear(cmpSeries, y)[c] = 1
                         /\ FirstOfYear(cmpSeries, y + 1)[c] = 0}),
      SquareMetresPerHectare)

\* C28: every feature of the result belongs to a year whose layer and whose
\* next year's layer both exist, holds the clearing area of that pair, and
\* has difference_ha = dea_clearing_ha - slats_clearing_ha.
C28_PairsExistingLayers ==
  pc = "done" =>
    \A i \in DOMAIN comparison :
      LET f == comparison[i]
      IN /\ HasLayer(f.year) /\ HasLayer(f.year + 1)
         /\ f.dea_clearing_ha = PairClearingHa(f.year)
         /\ f.difference_ha
              = NumSubtract(f.dea_clearing_ha, f.slats_clearing_ha)

====
